---- MODULE Spec2Model ----
(***************************************************************************)
(* The two image-reference auditing scripts of docs-site:                  *)
(*   find_doc_images.py  (enumerate *.md outside node_modules, extract,    *)
(*                        normalize, report paths missing under static/)   *)
(*   find_images.py      (enumerate every *.md, extract, list raw paths)   *)
(* Text is modelled as sequences of one-character strings.                 *)
(***************************************************************************)
EXTENDS Integers, Sequences, FiniteSets, TLC

\* ---------------------------------------------------------------- bounds
\* documents of a tree hold at most MaxItems snippets in total
MaxItems == 2
\* a document of the single-document extraction runs holds at most MaxFrags fragments
MaxFrags == 4
\* a path handed to the normalization holds at most MaxSegs segments
MaxSegs == 4

\* ------------------------------------------------------- string helpers
\* str.startswith
StartsWith(s, prefix) ==
    /\ Len(prefix) <= Len(s)
    /\ SubSeq(s, 1, Len(prefix)) = prefix

\* str.endswith
EndsWith(s, suffix) ==
    /\ Len(suffix) <= Len(s)
    /\ SubSeq(s, Len(s) - Len(suffix) + 1, Len(s)) = suffix

\* s[n:]
DropFirst(s, n) == SubSeq(s, n + 1, Len(s))

\* needle in s
Contains(s, needle) ==
    \E i \in 1..(Len(s) - Len(needle) + 1) :
        SubSeq(s, i, i + Len(needle) - 1) = needle

\* ord(c) of the characters that occur in paths
CodePoint ==
    ("!" :> 33) @@ ("(" :> 40) @@ (")" :> 41) @@ ("." :> 46) @@ ("/" :> 47) @@
    ("G" :> 71) @@ ("N" :> 78) @@ ("P" :> 80) @@ ("[" :> 91) @@ ("]" :> 93) @@
    ("a" :> 97) @@ ("b" :> 98) @@ ("d" :> 100) @@ ("f" :> 102) @@ ("g" :> 103) @@
    ("e" :> 101) @@ ("j" :> 106) @@ ("n" :> 110) @@ ("p" :> 112) @@ ("s" :> 115) @@
    ("v" :> 118) @@ (" " :> 32)

\* a < b for two str (comparison by code point, a proper prefix first)
RECURSIVE StrLess(_, _)
StrLess(a, b) ==
    IF b = << >> THEN FALSE
    ELSE IF a = << >> THEN TRUE
    ELSE IF Head(a) = Head(b) THEN StrLess(Tail(a), Tail(b))
    ELSE CodePoint[Head(a)] < CodePoint[Head(b)]

\* sorted(S) of a set of str
RECURSIVE SortedSet(_)
SortedSet(S) ==
    IF S = {} THEN << >>
    ELSE LET m == CHOOSE x \in S : \A y \in S \ {x} : StrLess(x, y)
         IN  <<m>> \o SortedSet(S \ {m})

\* list.insert keeping the order of equal keys: r goes after every record
\* whose path is not greater
RECURSIVE InsertByPath(_, _)
InsertByPath(sorted, r) ==
    IF sorted = << >> THEN <<r>>
    ELSE IF StrLess(r.path, Head(sorted).path)
         THEN <<r>> \o sorted
         ELSE <<Head(sorted)>> \o InsertByPath(Tail(sorted), r)

\* sorted(refs, key=lambda x: x['path']), a stable sort
RECURSIVE SortedByPath(_)
SortedByPath(refs) ==
    IF refs = << >> THEN << >>
    ELSE InsertByPath(SortedByPath(SubSeq(refs, 1, Len(refs) - 1)), refs[Len(refs)])

\* join of a sequence of str
RECURSIVE Flatten(_)
Flatten(ss) == IF ss = << >> THEN << >> ELSE Head(ss) \o Flatten(Tail(ss))

\* the sequences over S of length at most n
SeqsUpTo(S, n) == UNION {[1..k -> S] : k \in 0..n}

\* the elements of a sequence
Range(s) == {s[i] : i \in DOMAIN s}

\* --------------------------------------------------------- normalization
\* a mutation: the prefix is stripped until none is left
RECURSIVE normalize_recursive(_)
normalize_recursive(path) ==
    IF StartsWith(path, <<".", ".", "/">>) THEN normalize_recursive(DropFirst(path, 3))
    ELSE IF StartsWith(path, <<".", "/">>) THEN normalize_recursive(DropFirst(path, 2))
    ELSE path

\* a mutation: the './' branch removes three characters as the '../' branch does
normalize_strip3(path) ==
    IF StartsWith(path, <<".", ".", "/">>) THEN DropFirst(path, 3)
    ELSE IF StartsWith(path, <<".", "/">>) THEN DropFirst(path, 3)
    ELSE path

\* find_doc_images.py, the body of the loop that fills unique_paths
normalize(path) ==
    IF StartsWith(path, <<".", ".", "/">>) THEN DropFirst(path, 3)
    ELSE IF StartsWith(path, <<".", "/">>) THEN DropFirst(path, 2)
    ELSE path

\* ------------------------------------------------------------ extraction
\* the position of the first c in s at or after from, 0 when there is none
RECURSIVE FirstIndexOf(_, _, _)
FirstIndexOf(s, c, from) ==
    IF from > Len(s) THEN 0
    ELSE IF s[from] = c THEN from
    ELSE FirstIndexOf(s, c, from + 1)

NoMatch == [ok |-> FALSE, start |-> 0, end |-> 0, alt |-> << >>, path |-> << >>]

\* a mutation: the path group is [^)]* and may be empty
MatchAt_emptypath(s, i) ==
    LET j == IF i + 1 <= Len(s) /\ s[i] = "!" /\ s[i + 1] = "["
             THEN FirstIndexOf(s, "]", i + 2) ELSE 0
        k == IF j > 0 /\ j + 1 <= Len(s) /\ s[j + 1] = "("
             THEN FirstIndexOf(s, ")", j + 2) ELSE 0
    IN  IF k >= j + 2 /\ j > 0
        THEN [ok |-> TRUE, start |-> i, end |-> k,
              alt |-> SubSeq(s, i + 2, j - 1), path |-> SubSeq(s, j + 2, k - 1)]
        ELSE NoMatch

\* img_pattern.match at position i: '!' '[' ([^\]]*) ']' '(' ([^)]+) ')'.
\* Each group excludes the character that must follow it, so the greedy
\* group ends at the first such character and no shorter choice can match.
MatchAt(s, i) ==
    LET j == IF i + 1 <= Len(s) /\ s[i] = "!" /\ s[i + 1] = "["
             THEN FirstIndexOf(s, "]", i + 2) ELSE 0
        k == IF j > 0 /\ j + 1 <= Len(s) /\ s[j + 1] = "("
             THEN FirstIndexOf(s, ")", j + 2) ELSE 0
    IN  IF k > j + 2 /\ j > 0
        THEN [ok |-> TRUE, start |-> i, end |-> k,
              alt |-> SubSeq(s, i + 2, j - 1), path |-> SubSeq(s, j + 2, k - 1)]
        ELSE NoMatch

\* the scan of re: leftmost match at or after pos, then on from its end
RECURSIVE finditer(_, _)
finditer(s, pos) ==
    IF pos > Len(s) THEN << >>
    ELSE LET m == MatchAt(s, pos)
         IN  IF m.ok THEN <<m>> \o finditer(s, m.end + 1)
             ELSE finditer(s, pos + 1)

\* img_pattern.findall(content): the (alt_text, img_path) groups of the matches
findall(content) ==
    LET ms == finditer(content, 1)
    IN  [i \in DOMAIN ms |-> [alt_text |-> ms[i].alt, img_path |-> ms[i].path]]

\* the extension allow-list
IMAGE_EXTS == << <<".", "p", "n", "g">>, <<".", "j", "p", "g">>, <<".", "j", "p", "e", "g">>, <<".", "g", "i", "f">>, <<".", "s", "v", "g">>, <<".", "w", "e", "b", "p">> >>

\* a mutation: the suffix test ignores case for the characters of the model
Lower(c) == IF c = "P" THEN "p" ELSE IF c = "N" THEN "n" ELSE IF c = "G" THEN "g" ELSE c

has_image_ext_nocase(img_path) ==
    \E i \in DOMAIN IMAGE_EXTS :
        EndsWith([k \in DOMAIN img_path |-> Lower(img_path[k])], IMAGE_EXTS[i])

\* any(img_path.endswith(ext) for ext in [...])
has_image_ext(img_path) ==
    \E i \in DOMAIN IMAGE_EXTS : EndsWith(img_path, IMAGE_EXTS[i])

\* the records one document appends to image_refs
doc_refs(file, content) ==
    LET kept == SelectSeq(findall(content), LAMBDA m : has_image_ext(m.img_path))
    IN  [i \in DOMAIN kept |->
            [file |-> file, alt_text |-> kept[i].alt_text, path |-> kept[i].img_path]]

\* ------------------------------------------------------------ file system
\* A Path is the sequence of the components of an absolute path.  PurePath
\* parsing: split at '/', drop empty components and '.' components.
RECURSIVE Components(_, _)
Components(s, cur) ==
    LET done == IF cur = << >> \/ cur = <<".">> THEN << >> ELSE <<cur>>
    IN  IF s = << >> THEN done
        ELSE IF Head(s) = "/" THEN done \o Components(Tail(s), << >>)
        ELSE Components(Tail(s), Append(cur, Head(s)))

\* Path("/home/beagle/work/brummer/docs-site")
docs_site_path == Components(<<"/", "h", "o", "m", "e", "/", "b", "e", "a", "g", "l", "e", "/", "w", "o", "r", "k", "/", "b", "r", "u", "m", "m", "e", "r", "/", "d", "o", "c", "s", "-", "s", "i", "t", "e">>, << >>)

\* base / seg: a segment that starts with '/' replaces the base
PathJoin(base, seg) ==
    IF StartsWith(seg, <<"/">>) THEN Components(seg, << >>)
    ELSE base \o Components(seg, << >>)

\* str(path)
PathStr(parts) ==
    IF parts = << >> THEN <<"/">>
    ELSE Flatten([i \in DOMAIN parts |-> <<"/">> \o parts[i]])

\* str(path.relative_to(base))
RelativeStr(parts, base) ==
    LET rel == SubSeq(parts, Len(base) + 1, Len(parts))
    IN  IF rel = << >> THEN <<".">>
        ELSE Tail(Flatten([i \in DOMAIN rel |-> <<"/">> \o rel[i]]))

\* the directories of a set of files: every proper prefix of a file, and
\* the documentation root
DirsOf(files) ==
    UNION {{SubSeq(f, 1, n) : n \in 0..(Len(f) - 1)} : f \in files}
        \cup {SubSeq(docs_site_path, 1, n) : n \in 0..Len(docs_site_path)}

\* the lookup of the operating system: '..' steps to the parent of a
\* directory that exists, any other component steps into it
RECURSIVE Walk(_, _, _)
Walk(files, cur, rest) ==
    IF rest = << >> THEN cur \in files \/ cur \in DirsOf(files)
    ELSE IF cur \notin DirsOf(files) THEN FALSE
    ELSE IF Head(rest) = <<".", ".">>
         THEN Walk(files, SubSeq(cur, 1, Len(cur) - 1), Tail(rest))
         ELSE Walk(files, Append(cur, Head(rest)), Tail(rest))

\* path.exists()
Exists(files, parts) == Walk(files, << >>, parts)

\* the permutations of a finite set, as sequences
Perms(S) ==
    {q \in [1..Cardinality(S) -> S] : \A i, j \in DOMAIN q : q[i] = q[j] => i = j}

\* docs_site_path.rglob("*.md"): the entries below the root whose name
\* matches *.md (the model's trees hold no directory of such a name)
rglob_md(files) ==
    {f \in files :
        /\ Len(f) > Len(docs_site_path)
        /\ SubSeq(f, 1, Len(docs_site_path)) = docs_site_path
        /\ EndsWith(f[Len(f)], <<".", "m", "d">>)}

\* a mutation: the marker is looked for in the file name only
not_in_node_modules_name(file) == ~Contains(file[Len(file)], <<"n", "o", "d", "e", "_", "m", "o", "d", "u", "l", "e", "s">>)

\* "node_modules" not in str(file)
not_in_node_modules(file) == ~Contains(PathStr(file), <<"n", "o", "d", "e", "_", "m", "o", "d", "u", "l", "e", "s">>)

\* the strings print writes to standard output
BANNER_REFS_A == <<"=", "=", "=", " ", "D", "o", "c", "u", "m", "e", "n", "t", "a", "t", "i", "o", "n", " ", "I", "m", "a", "g", "e", " ", "R", "e", "f", "e", "r", "e", "n", "c", "e", "s", " ", "=", "=", "=">>
BANNER_REFS_B == <<"=", "=", "=", " ", "A", "l", "l", " ", "I", "m", "a", "g", "e", " ", "R", "e", "f", "e", "r", "e", "n", "c", "e", "s", " ", "F", "o", "u", "n", "d", " ", "=", "=", "=">>
BANNER_UNIQUE_A == <<"\n", "=", "=", "=", " ", "U", "n", "i", "q", "u", "e", " ", "I", "m", "a", "g", "e", " ", "P", "a", "t", "h", "s", " ", "(", "n", "o", "r", "m", "a", "l", "i", "z", "e", "d", ")", " ", "=", "=", "=">>
BANNER_UNIQUE_B == <<"\n", "=", "=", "=", " ", "U", "n", "i", "q", "u", "e", " ", "I", "m", "a", "g", "e", " ", "P", "a", "t", "h", "s", " ", "=", "=", "=">>
BANNER_MISSING == <<"\n", "=", "=", "=", " ", "M", "i", "s", "s", "i", "n", "g", " ", "I", "m", "a", "g", "e", "s", " ", "=", "=", "=">>

\* the four print calls of one record
ref_lines(ref) ==
    << <<"F", "i", "l", "e", ":", " ">> \o ref.file, <<" ", " ", "A", "l", "t", ":", " ">> \o ref.alt_text,
       <<" ", " ", "P", "a", "t", "h", ":", " ">> \o ref.path, << >> >>

missing_line(path) == <<"M", "I", "S", "S", "I", "N", "G", ":", " ">> \o path

\* ------------------------------------------------------------------ state
VARIABLES
    script,         \* which program runs: "find_doc_images" or "find_images"
    disk,           \* the file system: file |-> [decodable, text]
    pc,             \* the position of the program
    md_files,       \* md_files
    fi,             \* the index in md_files of the next document of the loop
    image_refs,     \* image_refs
    unique_paths,   \* unique_paths of find_doc_images.py (a set)
    unique_sorted,  \* unique_paths of find_images.py (a sorted list)
    out,            \* the strings printed so far, one per print call
    probed,         \* the paths exists() has been called on
    n_pc, n_path, n_out, n_twice   \* the normalization applied to one path

vars == <<script, disk, pc, md_files, fi, image_refs, unique_paths,
          unique_sorted, out, probed, n_pc, n_path, n_out, n_twice>>

run_vars == <<script, disk, pc, md_files, fi, image_refs, unique_paths,
              unique_sorted, out, probed>>

norm_vars == <<n_pc, n_path, n_out, n_twice>>

\* ----------------------------------------------------------------- inputs
\* the content of a file that is not UTF-8 text (an image; a damaged document)
Binary == [decodable |-> FALSE, text |-> << >>]

TextFile(t) == [decodable |-> TRUE, text |-> t]

\* the documents a tree may hold
DocPaths ==
    << docs_site_path \o << <<"a", ".", "m", "d">> >>,
       docs_site_path \o << <<"d">>, <<"b", ".", "m", "d">> >>,
       docs_site_path \o << <<"n", "o", "d", "e", "_", "m", "o", "d", "u", "l", "e", "s">>, <<"c", ".", "m", "d">> >> >>

\* the image a tree may hold under static/
StaticImage == docs_site_path \o << <<"s", "t", "a", "t", "i", "c">>, <<"a", ".", "p", "n", "g">> >>

\* the pieces of text the documents of a tree are made of
Snippets ==
    { <<"!", "[", "a", "]", "(", ".", "/", "a", ".", "p", "n", "g", ")">>, <<"!", "[", "]", "(", ".", ".", "/", "a", ".", "p", "n", "g", ")">>, <<"!", "[", "a", "]", "(", "a", ".", "p", "n", "g", ")">>, <<"!", "[", "b", "]", "(", "/", "a", ".", "p", "n", "g", ")">>,
      <<"!", "[", "]", "(", ".", ".", "/", ".", ".", "/", "b", ".", "j", "p", "g", ")">>, <<"!", "[", "a", "]", "(", "b", ".", "P", "N", "G", ")">> }

\* what a document made of k snippets can be; a document of none can also
\* be absent or be no UTF-8 text
Absent == [decodable |-> FALSE, text |-> <<"a", "b", "s", "e", "n", "t">>]

DocChoices(k) ==
    IF k = 0 THEN {Absent, Binary, TextFile(<< >>)}
    ELSE {TextFile(Flatten(q)) : q \in [1..k -> Snippets]}

\* the trees whose documents hold at most MaxItems snippets in total
Trees ==
    UNION {{<<c1, c2, c3>> : c1 \in DocChoices(a[1]), c2 \in DocChoices(a[2]),
                             c3 \in DocChoices(a[3])} :
           a \in {b \in [1..3 -> 0..MaxItems] : b[1] + b[2] + b[3] <= MaxItems}}

\* the file system of a tree and a set of images
DiskOf(tree, images) ==
    LET docs == {i \in 1..3 : tree[i] # Absent}
    IN  [f \in {DocPaths[i] : i \in docs} \cup images |->
            IF f \in images THEN Binary
            ELSE tree[CHOOSE i \in docs : DocPaths[i] = f]]

\* the fragments the document of a single-document run is made of
Fragments ==
    { <<"!", "[", "a", "]", "(", "a", ".", "p", "n", "g", ")">>, <<"!", "[">>, <<"]", "(">>, <<"b", ".", "P", "N", "G", ")">>, <<".", "/", "d", ".", "j", "p", "e", "g", ")">>, <<"]">>, <<")">> }

\* the second document a single-document run may find beside the first
SecondDocument == TextFile(<<"!", "[", "b", "]", "(", "b", ".", "s", "v", "g", ")", " ", "a", "n", "d", " ", "!", "[", "]", "(", "n", ".", "p", "d", "f", ")">>)

\* the segments the paths handed to the normalization are made of
Segments == { <<".", ".", "/">>, <<".", "/">>, <<"a", "/">>, <<"b", ".", "p", "n", "g">>, <<".">>, <<"/">> }

Scripts == {"find_doc_images", "find_images"}

InitRun ==
    /\ pc = "start"
    /\ md_files = << >>
    /\ fi = 1
    /\ image_refs = << >>
    /\ unique_paths = {}
    /\ unique_sorted = << >>
    /\ out = << >>
    /\ probed = {}

NormIdle == n_pc = "idle" /\ n_path = << >> /\ n_out = << >> /\ n_twice = << >>

\* a run of either script over a tree of up to three documents
Init ==
    /\ script \in Scripts
    /\ \E tree \in Trees, images \in SUBSET {StaticImage} :
           disk = DiskOf(tree, images)
    /\ InitRun
    /\ NormIdle

\* a run of either script over one document made of fragments, alone or
\* beside a second document
InitExtract ==
    /\ script \in Scripts
    /\ \E q \in SeqsUpTo(Fragments, MaxFrags), second \in {Absent, Binary, SecondDocument} :
           disk = DiskOf(<<TextFile(Flatten(q)), second, Absent>>, {})
    /\ InitRun
    /\ NormIdle

\* the normalization of one path made of segments
InitNorm ==
    /\ script = "none"
    /\ disk = << >>
    /\ InitRun
    /\ n_pc = "call"
    /\ n_path \in {Flatten(q) : q \in SeqsUpTo(Segments, MaxSegs)}
    /\ n_out = << >>
    /\ n_twice = << >>

\* ---------------------------------------------------------------- actions
\* find_doc_images.py lines 10-13, find_images.py line 10: rglob yields the
\* documents in the order of the file system; find_doc_images.py keeps those
\* whose path does not contain the marker
Enumerate ==
    /\ pc = "start"
    /\ \E order \in Perms(rglob_md(DOMAIN disk)) :
           md_files' = IF script = "find_doc_images"
                       THEN SelectSeq(order, not_in_node_modules)
                       ELSE order
    /\ pc' = "scan"
    /\ UNCHANGED <<script, disk, fi, image_refs, unique_paths, unique_sorted,
                   out, probed,
                   norm_vars>>

\* one pass of the loop over md_files: the document is read as UTF-8, its
\* matches are filtered by extension and appended
ScanDocument ==
    /\ pc = "scan"
    /\ fi <= Len(md_files)
    /\ disk[md_files[fi]].decodable
    /\ image_refs' = image_refs \o
           doc_refs(RelativeStr(md_files[fi], docs_site_path), disk[md_files[fi]].text)
    /\ fi' = fi + 1
    /\ UNCHANGED <<script, disk, pc, md_files, unique_paths, unique_sorted,
                   out, probed,
                   norm_vars>>

\* f.read() raises UnicodeDecodeError, which nothing catches: the
\* interpreter writes the traceback and exits, nothing has been printed
ScanFails ==
    /\ pc = "scan"
    /\ fi <= Len(md_files)
    /\ ~disk[md_files[fi]].decodable
    /\ pc' = "crashed"
    /\ UNCHANGED <<script, disk, md_files, fi, image_refs, unique_paths,
                   unique_sorted, out, probed,
                   norm_vars>>

\* the first section: the banner and the records sorted by path
PrintReferences ==
    /\ pc = "scan"
    /\ fi > Len(md_files)
    /\ LET sorted == SortedByPath(image_refs)
       IN  out' = out
               \o << IF script = "find_doc_images" THEN BANNER_REFS_A ELSE BANNER_REFS_B >>
               \o Flatten([i \in DOMAIN sorted |-> ref_lines(sorted[i])])
    /\ pc' = "unique"
    /\ UNCHANGED <<script, disk, md_files, fi, image_refs, unique_paths,
                   unique_sorted, probed,
                   norm_vars>>

\* a mutation: the paths are collected as written, without normalization
CollectUnique_raw ==
    /\ pc = "unique"
    /\ script = "find_doc_images"
    /\ unique_paths' = {image_refs[i].path : i \in DOMAIN image_refs}
    /\ pc' = "print_unique"
    /\ UNCHANGED <<script, disk, md_files, fi, image_refs, unique_sorted,
                   out, probed, norm_vars>>

\* find_doc_images.py lines 42-50
CollectUnique ==
    /\ pc = "unique"
    /\ script = "find_doc_images"
    /\ unique_paths' = {normalize(image_refs[i].path) : i \in DOMAIN image_refs}
    /\ pc' = "print_unique"
    /\ UNCHANGED <<script, disk, md_files, fi, image_refs, unique_sorted,
                   out, probed,
                   norm_vars>>

\* a mutation: the banner is printed only when there is a path to list
PrintUnique_skipempty ==
    /\ pc = "print_unique"
    /\ script = "find_doc_images"
    /\ out' = IF unique_paths = {} THEN out
              ELSE out \o <<BANNER_UNIQUE_A>> \o SortedSet(unique_paths)
    /\ pc' = "missing"
    /\ UNCHANGED <<script, disk, md_files, fi, image_refs, unique_paths,
                   unique_sorted, probed, norm_vars>>

\* find_doc_images.py lines 52-54
PrintUnique ==
    /\ pc = "print_unique"
    /\ script = "find_doc_images"
    /\ out' = out \o <<BANNER_UNIQUE_A>> \o SortedSet(unique_paths)
    /\ pc' = "missing"
    /\ UNCHANGED <<script, disk, md_files, fi, image_refs, unique_paths,
                   unique_sorted, probed,
                   norm_vars>>

\* the path find_doc_images.py looks up for a normalized path
full_path(path) == PathJoin(PathJoin(docs_site_path, <<"s", "t", "a", "t", "i", "c">>), path)

\* find_doc_images.py lines 57-61
ReportMissing ==
    /\ pc = "missing"
    /\ script = "find_doc_images"
    /\ LET paths == SortedSet(unique_paths)
           absent == SelectSeq(paths, LAMBDA p : ~Exists(DOMAIN disk, full_path(p)))
       IN  /\ out' = out \o <<BANNER_MISSING>>
                   \o [i \in DOMAIN absent |-> missing_line(absent[i])]
           /\ probed' = probed \cup {full_path(paths[i]) : i \in DOMAIN paths}
    /\ pc' = "done"
    /\ UNCHANGED <<script, disk, md_files, fi, image_refs, unique_paths,
                   unique_sorted, norm_vars>>

\* a mutation: find_images.py normalizes as find_doc_images.py does
SortUnique_normalized ==
    /\ pc = "unique"
    /\ script = "find_images"
    /\ unique_sorted' = SortedSet({normalize(image_refs[i].path) : i \in DOMAIN image_refs})
    /\ pc' = "print_unique"
    /\ UNCHANGED <<script, disk, md_files, fi, image_refs, unique_paths,
                   out, probed, norm_vars>>

\* find_images.py line 39
SortUnique ==
    /\ pc = "unique"
    /\ script = "find_images"
    /\ unique_sorted' = SortedSet({image_refs[i].path : i \in DOMAIN image_refs})
    /\ pc' = "print_unique"
    /\ UNCHANGED <<script, disk, md_files, fi, image_refs, unique_paths,
                   out, probed,
                   norm_vars>>

\* find_images.py lines 40-42
PrintUniqueRaw ==
    /\ pc = "print_unique"
    /\ script = "find_images"
    /\ out' = out \o <<BANNER_UNIQUE_B>> \o unique_sorted
    /\ pc' = "done"
    /\ UNCHANGED <<script, disk, md_files, fi, image_refs, unique_paths,
                   unique_sorted, probed,
                   norm_vars>>

\* the normalization applied to the path
Normalize ==
    /\ n_pc = "call"
    /\ n_out' = normalize(n_path)
    /\ n_pc' = "once"
    /\ UNCHANGED <<n_path, n_twice, run_vars>>

\* the normalization applied to its own result
NormalizeAgain ==
    /\ n_pc = "once"
    /\ n_twice' = normalize(n_out)
    /\ n_pc' = "twice"
    /\ UNCHANGED <<n_path, n_out, run_vars>>

Next ==
    \/ Enumerate
    \/ ScanDocument
    \/ ScanFails
    \/ PrintReferences
    \/ CollectUnique
    \/ PrintUnique
    \/ ReportMissing
    \/ SortUnique
    \/ PrintUniqueRaw

NextNorm ==
    \/ Normalize
    \/ NormalizeAgain

Spec == Init /\ [][Next]_vars

SpecExtract == InitExtract /\ [][Next]_vars

SpecNorm == InitNorm /\ [][NextNorm]_vars

\* ----------------------------------------------------------------- claims
\* s begins with the characters of p
HasPrefix(s, p) == \E rest \in {SubSeq(s, n, Len(s)) : n \in 1..(Len(s) + 1)} : s = p \o rest

\* C4: the normalization equals the reference function: a path that starts
\* with '../' loses its first 3 characters, else one that starts with './'
\* loses its first 2, else it is unchanged; the strip is single and not
\* repeated: '../a/b.png' gives 'a/b.png' and '../../a/b.png' gives '../a/b.png'.
C4_NormalizeIsReference ==
    n_pc \in {"once", "twice"} =>
        /\ HasPrefix(n_path, <<".", ".", "/">>) =>
               n_path = <<".", ".", "/">> \o n_out /\ Len(n_out) = Len(n_path) - 3
        /\ (~HasPrefix(n_path, <<".", ".", "/">>) /\ HasPrefix(n_path, <<".", "/">>)) =>
               n_path = <<".", "/">> \o n_out /\ Len(n_out) = Len(n_path) - 2
        /\ (~HasPrefix(n_path, <<".", ".", "/">>) /\ ~HasPrefix(n_path, <<".", "/">>)) =>
               n_out = n_path
        /\ n_path = <<".", ".", "/", "a", "/", "b", ".", "p", "n", "g">> => n_out = <<"a", "/", "b", ".", "p", "n", "g">>
        /\ n_path = <<".", ".", "/", ".", ".", "/", "a", "/", "b", ".", "p", "n", "g">> => n_out = <<".", ".", "/", "a", "/", "b", ".", "p", "n", "g">>

C4_Witness ==
    /\ n_pc = "once"
    /\ n_path = <<".", ".", "/", ".", ".", "/", "a", "/", "b", ".", "p", "n", "g">>
    /\ n_out = <<".", ".", "/", "a", "/", "b", ".", "p", "n", "g">>

\* C9: a path with no leading './' and no leading '../' is left as it is by
\* the normalization, and so is its result by a second application; a
\* path with such a prefix loses exactly that one prefix and so changes.
C9_IdempotentOnNormalized ==
    n_pc = "twice" =>
        LET prefixed(p) == HasPrefix(p, <<".", "/">>) \/ HasPrefix(p, <<".", ".", "/">>)
        IN  /\ ~prefixed(n_path) => n_out = n_path /\ n_twice = n_out
            /\ prefixed(n_path) =>
                   /\ n_out # n_path
                   /\ n_path \in {<<".", "/">> \o n_out, <<".", ".", "/">> \o n_out}
            /\ ~prefixed(n_out) => n_twice = n_out

C9_Witness ==
    /\ n_pc = "twice"
    /\ n_path = <<".", "/", ".", ".", "/", "b", ".", "p", "n", "g">>
    /\ n_out = <<".", ".", "/", "b", ".", "p", "n", "g">>
    /\ n_twice = <<"b", ".", "p", "n", "g">>

\* the loop over md_files has run to its end
AfterLoop ==
    \/ pc \in {"unique", "print_unique", "missing", "done"}
    \/ pc = "scan" /\ fi > Len(md_files)

\* p ends with one of the six extensions, compared case-sensitively
AllowedSuffixes == { <<".", "p", "n", "g">>, <<".", "j", "p", "g">>, <<".", "j", "p", "e", "g">>, <<".", "g", "i", "f">>, <<".", "s", "v", "g">>, <<".", "w", "e", "b", "p">> }

HasAllowedSuffix(p) ==
    \E e \in AllowedSuffixes : \E n \in 0..Len(p) : p = SubSeq(p, 1, n) \o e

\* the records of image_refs that come from document f
RecordsOf(f) ==
    SelectSeq(image_refs, LAMBDA r : r.file = RelativeStr(f, docs_site_path))

\* C3: after the extraction loop every record of image_refs has a path that
\* ends, case-sensitively, with one of .png .jpg .jpeg .gif .svg .webp; a
\* matched reference of a scanned document is in image_refs exactly when its
\* path ends so (x.PNG and n.pdf are left out).
C3_OnlyImageExtensions ==
    AfterLoop =>
        /\ \A i \in DOMAIN image_refs : HasAllowedSuffix(image_refs[i].path)
        /\ \A f \in Range(md_files) : \A m \in Range(findall(disk[f].text)) :
               HasAllowedSuffix(m.img_path) <=>
                   \E r \in Range(RecordsOf(f)) :
                       r.alt_text = m.alt_text /\ r.path = m.img_path

C3_Witness ==
    /\ AfterLoop
    /\ \E f \in Range(md_files) :
           /\ \E m \in Range(findall(disk[f].text)) : m.img_path = <<"b", ".", "P", "N", "G">>
           /\ \E r \in Range(RecordsOf(f)) : r.path = <<"a", ".", "p", "n", "g">>
    /\ \A i \in DOMAIN image_refs : image_refs[i].path # <<"b", ".", "P", "N", "G">>

\* the text of s from position i to position k is ![alt](path)
IsMarkup(s, i, k, alt, path) ==
    /\ 1 <= i /\ k <= Len(s)
    /\ SubSeq(s, i, k) = <<"!", "[">> \o alt \o <<"]", "(">> \o path \o <<")">>
    /\ "]" \notin Range(alt)
    /\ path # << >>
    /\ ")" \notin Range(path)

\* some markup ![alt](path) of s starts at position i
MarkupStartsAt(s, i) ==
    /\ i + 1 <= Len(s) /\ s[i] = "!" /\ s[i + 1] = "["
    /\ \E j \in (i + 2)..Len(s) :
           /\ s[j] = "]"
           /\ j + 1 <= Len(s) /\ s[j + 1] = "("
           /\ \E k \in (j + 3)..Len(s) :
                  IsMarkup(s, i, k, SubSeq(s, i + 2, j - 1), SubSeq(s, j + 2, k - 1))

\* C10: the matches of a document are occurrences of ![alt](path) whose alt
\* holds no ']' and whose path is non-empty and holds no ')'; they do not
\* overlap and come in the order of the text; every occurrence of the markup
\* is a match or overlaps one; the records the document adds to image_refs
\* are the matches with an allowed extension, in that order; a document
\* without a match adds none.
C10_MatchesInDocumentOrder ==
    AfterLoop =>
        \A f \in Range(md_files) :
            LET s == disk[f].text
                ms == finditer(s, 1)
                kept == SelectSeq(ms, LAMBDA m : HasAllowedSuffix(m.path))
                recs == RecordsOf(f)
            IN  /\ \A n \in DOMAIN ms : IsMarkup(s, ms[n].start, ms[n].end, ms[n].alt, ms[n].path)
                /\ \A n \in 1..(Len(ms) - 1) : ms[n].end < ms[n + 1].start
                /\ \A i \in 1..Len(s) :
                       MarkupStartsAt(s, i) =>
                           \E n \in DOMAIN ms : ms[n].start <= i /\ i <= ms[n].end
                /\ Len(recs) = Len(kept)
                /\ \A n \in DOMAIN recs :
                       recs[n].alt_text = kept[n].alt /\ recs[n].path = kept[n].path
                /\ ms = << >> => recs = << >>

C10_Witness ==
    /\ AfterLoop
    /\ \E f \in Range(md_files) :
           /\ Len(finditer(disk[f].text, 1)) = 2
           /\ Len(RecordsOf(f)) = 2
           /\ RecordsOf(f)[1].path = <<".", "/", "d", ".", "j", "p", "e", "g">>
           /\ RecordsOf(f)[2].path = <<"a", ".", "p", "n", "g">>

\* the position of the first line of out equal to x, 0 when there is none
LineOf(x) ==
    IF \E i \in DOMAIN out : out[i] = x
    THEN CHOOSE i \in DOMAIN out : out[i] = x /\ \A j \in 1..(i - 1) : out[j] # x
    ELSE 0

\* the lines of out after the banner from, up to the banner to or the end
SectionLines(from, to) ==
    IF LineOf(from) = 0 THEN << >>
    ELSE SubSeq(out, LineOf(from) + 1,
                IF LineOf(to) > LineOf(from) THEN LineOf(to) - 1 ELSE Len(out))

\* a sequence of str in strictly ascending order
Ascending(q) == \A i, j \in DOMAIN q : i < j => StrLess(q[i], q[j])

\* the reference normalization: one leading '../' or './' removed
Stripped(p) ==
    IF HasPrefix(p, <<".", ".", "/">>) THEN SubSeq(p, 4, Len(p))
    ELSE IF HasPrefix(p, <<".", "/">>) THEN SubSeq(p, 3, Len(p))
    ELSE p

\* C1 (the claim as stated): the Missing Images section lists a path p of the
\* unique-path set exactly when no file exists at <root>/static/p, lists
\* nothing else, and lists the paths in ascending order, whatever p begins with.
C1_MissingIffAbsentUnderStatic ==
    (script = "find_doc_images" /\ pc = "done") =>
        LET sec == SectionLines(BANNER_MISSING, << >>)
            under_static(p) ==
                Components(PathStr(docs_site_path) \o <<"/", "s", "t", "a", "t", "i", "c", "/">> \o p, << >>)
            absent == {p \in unique_paths : ~Exists(DOMAIN disk, under_static(p))}
        IN  /\ Range(sec) = {<<"M", "I", "S", "S", "I", "N", "G", ":", " ">> \o p : p \in absent}
            /\ Ascending(sec)

\* C1, the part that holds: for the paths of the unique-path set that do not
\* begin with '/', the section lists exactly those with no file at
\* <root>/static/p, in ascending order.
C1_HoldsForRelativePaths ==
    (script = "find_doc_images" /\ pc = "done" /\ \A p \in unique_paths : ~HasPrefix(p, <<"/">>)) =>
        LET sec == SectionLines(BANNER_MISSING, << >>)
            under_static(p) ==
                Components(PathStr(docs_site_path) \o <<"/", "s", "t", "a", "t", "i", "c", "/">> \o p, << >>)
            absent == {p \in unique_paths : ~Exists(DOMAIN disk, under_static(p))}
        IN  /\ Range(sec) = {<<"M", "I", "S", "S", "I", "N", "G", ":", " ">> \o p : p \in absent}
            /\ Ascending(sec)

\* C2 (the claim as stated): a document that cannot be decoded fails alone:
\* the run is not aborted, and the references of every other document are
\* collected and reported.
C2_UndecodableDocumentIsSkipped ==
    /\ pc # "crashed"
    /\ pc = "done" =>
           \A f \in Range(md_files) :
               disk[f].decodable =>
                   \A m \in Range(findall(disk[f].text)) :
                       HasAllowedSuffix(m.img_path) =>
                           /\ \E r \in Range(RecordsOf(f)) : r.path = m.img_path
                           /\ <<" ", " ", "P", "a", "t", "h", ":", " ">> \o m.img_path \in Range(out)

\* C5: the unique-path section of find_doc_images.py is the normalized raw
\* paths of image_refs, each listed once, in ascending order.
C5_UniqueSectionSortedNormalized ==
    (script = "find_doc_images" /\ pc \in {"missing", "done"}) =>
        LET sec == SectionLines(BANNER_UNIQUE_A, BANNER_MISSING)
        IN  /\ LineOf(BANNER_UNIQUE_A) > 0
            /\ Range(sec) = {Stripped(image_refs[i].path) : i \in DOMAIN image_refs}
            /\ Ascending(sec)

C5_Witness ==
    /\ script = "find_doc_images"
    /\ pc = "done"
    /\ {image_refs[i].path : i \in DOMAIN image_refs} = {<<".", "/", "a", ".", "p", "n", "g">>, <<".", ".", "/", "a", ".", "p", "n", "g">>}
    /\ SectionLines(BANNER_UNIQUE_A, BANNER_MISSING) = << <<"a", ".", "p", "n", "g">> >>

\* C6: find_doc_images.py prints the banner of the references and the
\* records, then the banner of the unique paths and the paths, then the
\* banner of the missing images and the missing paths; no line of a later
\* section comes before a line of an earlier one, and a run that reaches its
\* end has printed the three banners, also above an empty section.
C6_ThreeSectionsInOrder ==
    script = "find_doc_images" =>
        LET b1 == LineOf(BANNER_REFS_A)
            b2 == LineOf(BANNER_UNIQUE_A)
            b3 == LineOf(BANNER_MISSING)
            n == Len(image_refs)
        IN  /\ pc \in {"start", "scan", "crashed"} => out = << >>
            /\ pc \in {"unique", "print_unique", "missing", "done"} =>
                   /\ b1 = 1
                   /\ Len(out) >= 4 * n + 1
                   /\ \A k \in 1..n :
                          /\ HasPrefix(out[4 * k - 2], <<"F", "i", "l", "e", ":", " ">>)
                          /\ HasPrefix(out[4 * k - 1], <<" ", " ", "A", "l", "t", ":", " ">>)
                          /\ HasPrefix(out[4 * k], <<" ", " ", "P", "a", "t", "h", ":", " ">>)
                          /\ out[4 * k + 1] = << >>
            /\ pc \in {"unique", "print_unique"} => Len(out) = 4 * n + 1
            /\ pc \in {"missing", "done"} =>
                   /\ b2 = 4 * n + 2
                   /\ Len(out) >= b2 + Cardinality(unique_paths)
                   /\ \A i \in (b2 + 1)..(b2 + Cardinality(unique_paths)) :
                          out[i] \in unique_paths
            /\ pc = "missing" => Len(out) = b2 + Cardinality(unique_paths)
            /\ pc = "done" =>
                   /\ b3 = b2 + Cardinality(unique_paths) + 1
                   /\ \A i \in (b3 + 1)..Len(out) : HasPrefix(out[i], <<"M", "I", "S", "S", "I", "N", "G", ":", " ">>)

C6_Witness ==
    /\ script = "find_doc_images"
    /\ pc = "done"
    /\ Len(image_refs) = 2
    /\ Cardinality(unique_paths) = 1
    /\ out[Len(out)] = BANNER_MISSING

\* the documents below the root: files whose name ends with .md
MarkdownUnderRoot ==
    {f \in DOMAIN disk :
        /\ \E rest \in {SubSeq(f, n, Len(f)) : n \in 2..Len(f)} : f = docs_site_path \o rest
        /\ \E stem \in {SubSeq(f[Len(f)], 1, n) : n \in 0..Len(f[Len(f)])} :
               f[Len(f)] = stem \o <<".", "m", "d">>}

\* some component of the path holds the marker
HasMarker(f) ==
    \E c \in Range(f) : \E i \in 1..(Len(c) - 11) : SubSeq(c, i, i + 11) = <<"n", "o", "d", "e", "_", "m", "o", "d", "u", "l", "e", "s">>

\* C7: find_doc_images.py enumerates exactly the *.md files below the root
\* whose path does not contain 'node_modules', each once; the loop reads them
\* all when it runs to its end, and no record of image_refs names a file
\* whose path contains the marker.
C7_EnumerationSkipsNodeModules ==
    (script = "find_doc_images" /\ pc # "start") =>
        /\ Range(md_files) = {f \in MarkdownUnderRoot : ~HasMarker(f)}
        /\ Len(md_files) = Cardinality(Range(md_files))
        /\ \A i \in DOMAIN image_refs :
               \A k \in 1..(Len(image_refs[i].file) - 11) :
                   SubSeq(image_refs[i].file, k, k + 11) # <<"n", "o", "d", "e", "_", "m", "o", "d", "u", "l", "e", "s">>
        /\ AfterLoop => fi = Len(md_files) + 1

C7_Witness ==
    /\ script = "find_doc_images"
    /\ AfterLoop
    /\ \E f \in DOMAIN disk : HasMarker(f) /\ findall(disk[f].text) # << >>
    /\ Len(md_files) = 2
    /\ image_refs # << >>

\* C8: find_images.py enumerates every *.md file below the root, each once;
\* its unique-path section is the raw paths of image_refs, each listed once
\* as written, in ascending order; it prints no missing-image report and
\* looks no file up.
C8_RawUniqueNoMissingReport ==
    script = "find_images" =>
        /\ pc # "start" =>
               /\ Range(md_files) = MarkdownUnderRoot
               /\ Len(md_files) = Cardinality(MarkdownUnderRoot)
        /\ pc = "done" =>
               LET sec == SectionLines(BANNER_UNIQUE_B, << >>)
               IN  /\ LineOf(BANNER_UNIQUE_B) > 0
                   /\ Range(sec) = {image_refs[i].path : i \in DOMAIN image_refs}
                   /\ Ascending(sec)
        /\ probed = {}
        /\ \A i \in DOMAIN out :
               out[i] # BANNER_MISSING /\ ~HasPrefix(out[i], <<"M", "I", "S", "S", "I", "N", "G", ":", " ">>)

C8_Witness ==
    /\ script = "find_images"
    /\ pc = "done"
    /\ \E f \in Range(md_files) : HasMarker(f)
    /\ SectionLines(BANNER_UNIQUE_B, << >>) = << <<".", ".", "/", "a", ".", "p", "n", "g">>, <<".", "/", "a", ".", "p", "n", "g">> >>

====
